---- MODULE Spec2Model ----
(***************************************************************************)
(* The messagepack metadata backend of the decomposed file system          *)
(* (package metadata, MessagePackBackend): attribute maps kept in sidecar  *)
(* files <path>.mpk, guarded by lock files <path>.mlock and fronted by a   *)
(* file metadata cache.                                                    *)
(*                                                                         *)
(* Two granularities of the same code are modelled.                        *)
(*   SpecSeq : one client, every public method is one action (the whole    *)
(*             handler), two objects, all methods.                         *)
(*   Spec    : several processes on one object, saveAttributes and         *)
(*             loadAttributes split at every access to shared state (lock, *)
(*             cache, file system), with process crashes and cache expiry. *)
(* and three variations:                                                   *)
(*   SpecFault    : SpecSeq's methods with failing calls to the lock file, *)
(*                  the file system, the encoder and the cache.            *)
(*   SpecLive     : Spec with failing calls of the writers, and fairness.  *)
(*   SpecClassify : IsMetaFile over the names of a tree.                   *)
(***************************************************************************)
EXTENDS Integers, Sequences, FiniteSets, TLC

(***************************************************************************)
(* Bounds of the model.                                                    *)
(***************************************************************************)
NWriters == 2
MaxCrashes == 1

\* listExistingShares: the longest list of shares, and the number of workers
\* of the pool (50 in the code), kept below MaxShares so that there are
\* more shares than workers.
MaxShares == 3
MaxWorkers == 2

ChunkLen == 2

(***************************************************************************)
(* Processes of Spec: writers call SetMultiple, readers call All.          *)
(***************************************************************************)
Writers == 1..NWriters
Readers == {NWriters + 1}
Procs == Writers \cup Readers
NoProc == 0

(***************************************************************************)
(* Paths.  A path is a sequence of tokens; "+" on Go strings is \o.        *)
(***************************************************************************)
rootPath == <<"root">>
PathA == rootPath \o <<"/", "a">>
PathB == rootPath \o <<"/", "b">>
Paths == {PathA, PathB}

HasPrefix(s, prefix) ==
    /\ Len(s) >= Len(prefix)
    /\ SubSeq(s, 1, Len(prefix)) = prefix

TrimPrefix(s, prefix) ==
    IF HasPrefix(s, prefix) THEN SubSeq(s, Len(prefix) + 1, Len(s)) ELSE s

MetadataPath(path) == path \o <<".mpk">>

LockfilePath(path) == path \o <<".mlock">>

cacheKey(path) == TrimPrefix(path, rootPath \o <<"/">>)

FileNames ==
    Paths \cup {MetadataPath(p) : p \in Paths} \cup {LockfilePath(p) : p \in Paths}

CacheKeys == {cacheKey(p) : p \in Paths}

(***************************************************************************)
(* Attribute maps: functions from a finite set of keys to values.          *)
(***************************************************************************)
Keys == {1, 2}
Vals == {1, 2}

EmptyMap == [k \in {} |-> 0]

Min(S) == CHOOSE x \in S : \A y \in S : x <= y

AttrMaps == UNION {[D -> Vals] : D \in SUBSET Keys}

\* The maps handed to SetMultiple: every non-empty set of keys; the first key
\* is given every value (it is overwritten), the others one value.
SetInputs ==
    {m \in AttrMaps : m # EmptyMap /\ \A k \in DOMAIN m : k # Min(Keys) => m[k] = Min(Vals)}

(***************************************************************************)
(* Errors.                                                                 *)
(***************************************************************************)
Nil == "nil"
ErrNotExist == "ENOENT"
ErrEmptyFile == "encountered empty metadata file"
ErrDecode == "msgpack: decode error"
ENOATTR == "ENOATTR"

(***************************************************************************)
(* Files.  A file is absent, or holds a sequence of bytes.  The encoding   *)
(* of a map is a header byte holding the number of pairs followed by the   *)
(* key and the value of every pair, so the encoding of the empty map is    *)
(* one byte long and a proper prefix of an encoding does not decode.       *)
(* The encoder's order of the pairs is not specified by Go; the decoder    *)
(* builds the same map from every order, and the model writes the pairs by *)
(* ascending key.                                                          *)
(***************************************************************************)
NoFile == [exists |-> FALSE, data |-> <<>>]
File(d) == [exists |-> TRUE, data |-> d]

RECURSIVE EncodePairs(_, _)
EncodePairs(attribs, ks) ==
    IF ks = {} THEN <<>>
    ELSE LET k == Min(ks)
         IN  <<k, attribs[k]>> \o EncodePairs(attribs, ks \ {k})

\* Mutant: the encoder leaves out the pair of the largest key when there are
\* several, and counts the pairs it wrote.
Marshal_dropsPair(attribs) ==
    IF Cardinality(DOMAIN attribs) < 2
    THEN <<Cardinality(DOMAIN attribs)>> \o EncodePairs(attribs, DOMAIN attribs)
    ELSE LET kept == DOMAIN attribs \ {CHOOSE k \in DOMAIN attribs :
                                          \A j \in DOMAIN attribs : j <= k}
         IN  <<Cardinality(kept)>> \o EncodePairs(attribs, kept)

Marshal(attribs) ==
    <<Cardinality(DOMAIN attribs)>> \o EncodePairs(attribs, DOMAIN attribs)

Put(m, k, v) == [x \in DOMAIN m \cup {k} |-> IF x = k THEN v ELSE m[x]]

RECURSIVE DecodePairs(_, _)
DecodePairs(b, acc) ==
    IF Len(b) < 2 THEN acc
    ELSE DecodePairs(SubSeq(b, 3, Len(b)), Put(acc, b[1], b[2]))

Unmarshal(msgBytes) ==
    IF Len(msgBytes) = 0 \/ Len(msgBytes) # 1 + 2 * msgBytes[1]
    THEN [err |-> ErrDecode, attribs |-> EmptyMap]
    ELSE [err |-> Nil, attribs |-> DecodePairs(Tail(msgBytes), EmptyMap)]

(***************************************************************************)
(* The file metadata cache: pull, push, invalidate.                        *)
(***************************************************************************)
NoEntry == [found |-> FALSE, attribs |-> EmptyMap]
Entry(attribs) == [found |-> TRUE, attribs |-> attribs]

PullFromCache(c, key) == c[key]
PushToCache(c, key, attribs) == [c EXCEPT ![key] = Entry(attribs)]
RemoveMetadata(c, key) == [c EXCEPT ![key] = NoEntry]

(***************************************************************************)
(* State.                                                                  *)
(*   fs      the file tree: objects, sidecar files and lock files          *)
(*   cache   the metadata cache, by cache key                              *)
(*   res     SpecSeq: the call that returned last, with what it returned   *)
(*   proc    Spec: per process, a record of                                *)
(*             pc          where it stands in saveAttributes/loadAttributes*)
(*             setAttribs  the argument of the writer's SetMultiple        *)
(*             base        the map the writer decoded from the sidecar     *)
(*             attribs     the local map attribs (merged, or loaded)       *)
(*             msg         the local bytes (d, or msgBytes of a reader)    *)
(*             err         the error the call returned                     *)
(*             tmp         the temporary file of renameio.WriteFile        *)
(*   lockedBy  the process holding the lock on the lock file, or NoProc    *)
(*   crashed   the processes that have crashed                             *)
(*   prior     history: the map stored before the first call               *)
(*   persisted SpecFault, history: per path, the maps that were at some    *)
(*             moment the durably stored map of the object there           *)
(* and the state of one call of listExistingShares (SpecShares):           *)
(*   rshares   the listed shares, each given by what Stat answers for it   *)
(*   pc        where the caller and the collecting goroutine are           *)
(*   submitted the number of shares handed to the pool so far              *)
(*   tasks     the task queue of the pool                                  *)
(*   workers   the workers of the pool                                     *)
(*   sharesCh  the result channel: its buffer and whether it is closed     *)
(*   doneCh    the done channel: whether it is closed                      *)
(*   sris      the slice of pairs that is returned                         *)
(***************************************************************************)
VARIABLES fs, cache, res, proc, lockedBy, crashed, prior, persisted,
          rshares, pc, submitted, tasks, workers, sharesCh, doneCh, sris

procVars == <<proc, lockedBy, crashed, prior, persisted>>

listVars == <<rshares, pc, submitted, tasks, workers, sharesCh, doneCh, sris>>

vars == <<fs, cache, res, procVars, listVars>>

\* The pool's workers, and the state of listExistingShares before it is
\* called (the store's specifications leave it there).
Workers == 1..MaxWorkers

NoWorker == [state |-> "none", task |-> 0]

NoListing ==
    /\ rshares = <<>>
    /\ pc = [main |-> "idle", collector |-> "none"]
    /\ submitted = 0
    /\ tasks = <<>>
    /\ workers = [w \in Workers |-> NoWorker]
    /\ sharesCh = [buf |-> <<>>, closed |-> FALSE]
    /\ doneCh = [closed |-> FALSE]
    /\ sris = <<>>

(***************************************************************************)
(* File system calls.                                                      *)
(***************************************************************************)
\* lockedfile.OpenFile(lockPath, os.O_RDWR|os.O_CREATE, 0600): the file is
\* created, empty, when it does not exist.
OpenLockFile(fsys, lockPath) ==
    IF fsys[lockPath].exists THEN fsys ELSE [fsys EXCEPT ![lockPath] = File(<<>>)]

\* renameio.WriteFile(metaPath, d, 0600), the temporary file renamed over
\* the destination.
ReplaceFile(fsys, name, d) == [fsys EXCEPT ![name] = File(d)]

\* Mutant: the existence of the object is not checked.
OsStat_alwaysThere(fsys, name) == Nil

\* os.Stat(name): only the error is used.
OsStat(fsys, name) == IF fsys[name].exists THEN Nil ELSE ErrNotExist

\* os.Remove(name)
OsRemove(fsys, name) ==
    IF fsys[name].exists
    THEN [fs |-> [fsys EXCEPT ![name] = NoFile], err |-> Nil]
    ELSE [fs |-> fsys, err |-> ErrNotExist]

\* os.Rename(oldName, newName)
OsRename(fsys, oldName, newName) ==
    IF fsys[oldName].exists
    THEN [fs |-> [fsys EXCEPT ![newName] = fsys[oldName], ![oldName] = NoFile],
          err |-> Nil]
    ELSE [fs |-> fsys, err |-> ErrNotExist]

(***************************************************************************)
(* saveAttributes, piece by piece.                                         *)
(***************************************************************************)
\* "Invalidate cache early"
InvalidateEarly(c, path) == RemoveMetadata(c, cacheKey(path))

\* "Read current state": the switch over os.ReadFile's result.
ReadCurrent(f) ==
    IF ~f.exists THEN [err |-> Nil, attribs |-> EmptyMap]
    ELSE IF Len(f.data) = 0 THEN [err |-> ErrEmptyFile, attribs |-> EmptyMap]
    ELSE Unmarshal(f.data)

\* Mutant: the stored map is replaced rather than merged into.
Prepare_dropsBase(attribs, setAttribs, deleteAttribs) ==
    [k \in DOMAIN setAttribs \ deleteAttribs |-> setAttribs[k]]

\* "prepare metadata": the two loops, sets first, deletes second.
Prepare(attribs, setAttribs, deleteAttribs) ==
    LET afterSet == [k \in DOMAIN attribs \cup DOMAIN setAttribs |->
                        IF k \in DOMAIN setAttribs THEN setAttribs[k] ELSE attribs[k]]
    IN  [k \in DOMAIN afterSet \ deleteAttribs |-> afterSet[k]]

\* The final b.metaCache.PushToCache(b.cacheKey(path), attribs)
Repopulate(c, path, attribs) == PushToCache(c, cacheKey(path), attribs)

\* Mutant: the writer neither invalidates nor repopulates the cache.
saveAttributes_ignoresCache(fsys, c, path, setAttribs, deleteAttribs, acquireLock) ==
    LET fs1 == IF acquireLock THEN OpenLockFile(fsys, LockfilePath(path)) ELSE fsys
        cur == ReadCurrent(fs1[MetadataPath(path)])
    IN  IF cur.err # Nil
        THEN [fs |-> fs1, cache |-> c, err |-> cur.err]
        ELSE [fs |-> ReplaceFile(fs1, MetadataPath(path),
                                 Marshal(Prepare(cur.attribs, setAttribs, deleteAttribs))),
              cache |-> c,
              err |-> Nil]

\* The whole method, with nothing running beside it.
saveAttributes(fsys, c, path, setAttribs, deleteAttribs, acquireLock) ==
    LET lockPath == LockfilePath(path)
        metaPath == MetadataPath(path)
        fs1 == IF acquireLock THEN OpenLockFile(fsys, lockPath) ELSE fsys
        c1 == InvalidateEarly(c, path)
        cur == ReadCurrent(fs1[metaPath])
        attribs == Prepare(cur.attribs, setAttribs, deleteAttribs)
        d == Marshal(attribs)
    IN  IF cur.err # Nil
        THEN [fs |-> fs1, cache |-> c1, err |-> cur.err]
        ELSE [fs |-> ReplaceFile(fs1, metaPath, d),
              cache |-> Repopulate(c1, path, attribs),
              err |-> Nil]

(***************************************************************************)
(* loadAttributes.  source is NoSource (nil) or the bytes of a reader the  *)
(* caller hands in (AllWithLockedSource).                                  *)
(***************************************************************************)
NoSource == [given |-> FALSE, data |-> <<>>]
Source(d) == [given |-> TRUE, data |-> d]

\* Mutant: the decoded map is pushed under the key of another object.
DecodeAndCache_otherKey(c, path, msgBytes) ==
    LET u == IF Len(msgBytes) > 0 THEN Unmarshal(msgBytes)
             ELSE [err |-> Nil, attribs |-> EmptyMap]
    IN  IF u.err # Nil
        THEN [attribs |-> EmptyMap, err |-> u.err, cache |-> c]
        ELSE [attribs |-> u.attribs, err |-> Nil,
              cache |-> PushToCache(c, cacheKey(PathB), u.attribs)]

\* From "if len(msgBytes) > 0" to the end: decode what was read and cache it.
DecodeAndCache(c, path, msgBytes) ==
    LET u == IF Len(msgBytes) > 0 THEN Unmarshal(msgBytes)
             ELSE [err |-> Nil, attribs |-> EmptyMap]
    IN  IF u.err # Nil
        THEN [attribs |-> EmptyMap, err |-> u.err, cache |-> c]
        ELSE [attribs |-> u.attribs, err |-> Nil,
              cache |-> PushToCache(c, cacheKey(path), u.attribs)]

loadAttributes(fsys, c, path, source) ==
    LET hit == PullFromCache(c, cacheKey(path))
        metaPath == MetadataPath(path)
    IN  IF hit.found THEN [attribs |-> hit.attribs, err |-> Nil, cache |-> c]
        ELSE IF source.given THEN DecodeAndCache(c, path, source.data)
        ELSE IF ~fsys[metaPath].exists
             THEN \* "stat the actual node"; no attributes set yet if it exists
                  [attribs |-> EmptyMap, err |-> OsStat(fsys, path), cache |-> c]
        ELSE DecodeAndCache(c, path, fsys[metaPath].data)

(***************************************************************************)
(* Purge and Rename.                                                       *)
(***************************************************************************)
\* Mutant: Purge removes the file and leaves the cache entry.
purge_keepsCache(fsys, c, path) ==
    LET r == OsRemove(fsys, MetadataPath(path))
    IN  [fs |-> r.fs, cache |-> c, err |-> r.err]

purge(fsys, c, path) ==
    LET r == OsRemove(fsys, MetadataPath(path))
    IN  [fs |-> r.fs, cache |-> RemoveMetadata(c, cacheKey(path)), err |-> r.err]

\* The cache half of Rename: migrate the old entry if there is one, then drop
\* the old key.
MigrateCache(c, oldPath, newPath) ==
    LET data == PullFromCache(c, cacheKey(oldPath))
        c1 == IF data.found THEN PushToCache(c, cacheKey(newPath), data.attribs) ELSE c
    IN  RemoveMetadata(c1, cacheKey(oldPath))

rename(fsys, c, oldPath, newPath) ==
    LET r == OsRename(fsys, MetadataPath(oldPath), MetadataPath(newPath))
    IN  [fs |-> r.fs, cache |-> MigrateCache(c, oldPath, newPath), err |-> r.err]

(***************************************************************************)
(* SpecSeq: the public methods, one after the other.                       *)
(* res records the call that returned last: its arguments, the error and   *)
(* the value it returned.  res.stale is history: whether, when a mutation  *)
(* was called, the cache held an entry for the object that differed from   *)
(* the sidecar file.                                                       *)
(***************************************************************************)
NoCall ==
    [op |-> "none", path |-> <<>>, key |-> 0, setAttribs |-> EmptyMap,
     newPath |-> <<>>, err |-> Nil, attribs |-> EmptyMap, val |-> 0, names |-> {},
     stale |-> FALSE]

\* The store is opened on a tree in which the object at PathA exists and
\* the one at PathB does not.  A sidecar file another program created and
\* left empty may be there already.
InitFiles ==
    {f \in [FileNames -> {NoFile, File(<<>>)}] :
        /\ f[PathA].exists /\ ~f[PathB].exists
        /\ \A p \in Paths : ~f[LockfilePath(p)].exists
        /\ ~f[MetadataPath(PathB)].exists}

IdleProc == [pc |-> "idle", setAttribs |-> EmptyMap, base |-> EmptyMap,
             attribs |-> EmptyMap, msg |-> <<>>, err |-> Nil, tmp |-> NoFile]

IdleProcs ==
    /\ proc = [p \in Procs |-> IdleProc]
    /\ lockedBy = NoProc
    /\ crashed = {}

InitSeq ==
    /\ fs \in InitFiles
    /\ cache = [k \in CacheKeys |-> NoEntry]
    /\ res = NoCall
    /\ IdleProcs
    /\ prior = EmptyMap
    /\ persisted = [p \in Paths |-> {}]
    /\ NoListing

\* What the sidecar file of path holds, decoded (the empty map if there is
\* none); used to state properties and to record history, not by the store.
Stored(fsys, path) ==
    IF fsys[MetadataPath(path)].exists
    THEN Unmarshal(fsys[MetadataPath(path)].data).attribs
    ELSE EmptyMap

StaleEntry(fsys, c, path) ==
    /\ c[cacheKey(path)].found
    /\ c[cacheKey(path)].attribs # Stored(fsys, path)

Save(name, path, key, setAttribs, deleteAttribs, acquireLock) ==
    \E r \in {saveAttributes(fs, cache, path, setAttribs, deleteAttribs, acquireLock)} :
        /\ fs' = r.fs
        /\ cache' = r.cache
        /\ res' = [NoCall EXCEPT !.op = name, !.path = path, !.key = key,
                                 !.setAttribs = setAttribs, !.err = r.err,
                                 !.stale = StaleEntry(fs, cache, path)]
        /\ UNCHANGED <<procVars, listVars>>

\* Set(path, key, val) is SetMultiple(path, {key: val}, true).
SetMultiple(path, attribs, acquireLock) ==
    Save("SetMultiple", path, 0, attribs, {}, acquireLock)

Remove(path, key) == Save("Remove", path, key, EmptyMap, {key}, TRUE)

All(path) ==
    \E r \in {loadAttributes(fs, cache, path, NoSource)} :
        /\ cache' = r.cache
        /\ res' = [NoCall EXCEPT !.op = "All", !.path = path,
                                 !.err = r.err, !.attribs = r.attribs]
        /\ UNCHANGED <<fs, procVars, listVars>>

\* The caller holds the sidecar file open and locked, and hands in a reader.
AllWithLockedSource(path) ==
    /\ fs[MetadataPath(path)].exists
    /\ \E r \in {loadAttributes(fs, cache, path, Source(fs[MetadataPath(path)].data))} :
           /\ cache' = r.cache
           /\ res' = [NoCall EXCEPT !.op = "AllWithLockedSource", !.path = path,
                                    !.err = r.err, !.attribs = r.attribs]
    /\ UNCHANGED <<fs, procVars, listVars>>

Get(path, key) ==
    \E r \in {loadAttributes(fs, cache, path, NoSource)} :
        \E e \in {IF r.err # Nil THEN r.err
                  ELSE IF key \notin DOMAIN r.attribs THEN ENOATTR ELSE Nil} :
            /\ cache' = r.cache
            /\ res' = [NoCall EXCEPT !.op = "Get", !.path = path, !.key = key,
                                     !.err = e,
                                     !.val = IF e = Nil THEN r.attribs[key] ELSE 0]
            /\ UNCHANGED <<fs, procVars, listVars>>

List(path) ==
    \E r \in {loadAttributes(fs, cache, path, NoSource)} :
        /\ cache' = r.cache
        /\ res' = [NoCall EXCEPT !.op = "List", !.path = path, !.err = r.err,
                                 !.names = IF r.err = Nil THEN DOMAIN r.attribs ELSE {}]
        /\ UNCHANGED <<fs, procVars, listVars>>

Purge(path) ==
    \E r \in {purge(fs, cache, path)} :
        /\ fs' = r.fs
        /\ cache' = r.cache
        /\ res' = [NoCall EXCEPT !.op = "Purge", !.path = path, !.err = r.err]
        /\ UNCHANGED <<procVars, listVars>>

Rename(oldPath, newPath) ==
    \E r \in {rename(fs, cache, oldPath, newPath)} :
        /\ fs' = r.fs
        /\ cache' = r.cache
        /\ res' = [NoCall EXCEPT !.op = "Rename", !.path = oldPath,
                                 !.newPath = newPath, !.err = r.err]
        /\ UNCHANGED <<procVars, listVars>>

\* The cache drops an entry whose TTL has run out.
Expire(key) ==
    /\ cache[key].found
    /\ cache' = [cache EXCEPT ![key] = NoEntry]
    /\ res' = [NoCall EXCEPT !.op = "expire"]
    /\ UNCHANGED <<fs, procVars, listVars>>

NextSeq ==
    \/ \E path \in Paths, attribs \in SetInputs, acquireLock \in BOOLEAN :
          SetMultiple(path, attribs, acquireLock)
    \/ \E path \in Paths, key \in Keys : Remove(path, key)
    \/ \E path \in Paths : All(path)
    \/ \E path \in Paths : AllWithLockedSource(path)
    \/ \E path \in Paths, key \in Keys : Get(path, key)
    \/ \E path \in Paths : List(path)
    \/ \E path \in Paths : Purge(path)
    \/ \E oldPath \in Paths : \E newPath \in Paths \ {oldPath} :
          Rename(oldPath, newPath)
    \/ \E key \in CacheKeys : Expire(key)

SpecSeq == InitSeq /\ [][NextSeq]_vars

(***************************************************************************)
(* Spec: concurrent calls on one object, one action per access to the      *)
(* file tree, the lock or the cache.  Writers call                         *)
(* SetMultiple(Obj, {WriterKey(w): v}, true), readers call All(Obj), cache  *)
(* entries expire, and a writer may crash anywhere inside its call.        *)
(***************************************************************************)
Obj == PathA

WriterKey(w) == w
WriterKeys == {WriterKey(w) : w \in Writers}
PriorKey == NWriters + 1
WriterVals == Vals \ {Min(Vals)}

PriorMaps ==
    UNION {[D -> {Min(Vals)}] : D \in SUBSET {PriorKey, WriterKey(Min(Writers))}}

\* The sidecar file is absent or holds a complete encoding; a zero-length
\* sidecar makes every saveAttributes fail and is left to SpecSeq.
Init ==
    /\ \E f \in {NoFile} \cup {File(Marshal(m)) : m \in PriorMaps} :
          fs = [n \in FileNames |->
                   IF n = Obj THEN File(<<>>)
                   ELSE IF n = MetadataPath(Obj) THEN f ELSE NoFile]
    /\ cache = [k \in CacheKeys |-> NoEntry]
    /\ res = NoCall
    /\ IdleProcs
    /\ prior = Stored(fs, Obj)
    /\ persisted = [p \in Paths |-> {}]
    /\ NoListing

At(self, label) == self \notin crashed /\ proc[self].pc = label

\* Mutant: the lock does not exclude a second holder.
LockFree_notExclusive(holder) == TRUE

\* flock(LOCK_EX) on the lock file returns when no other process holds it.
LockFree(holder) == holder = NoProc

\* renameio.WriteFile renames once every byte is in the temporary file.
TempComplete(t, d) == t.exists /\ Len(t.data) = Len(d)

NextChunk(t, d) ==
    LET sofar == IF t.exists THEN Len(t.data) ELSE 0
    IN  SubSeq(d, 1, IF sofar + ChunkLen < Len(d) THEN sofar + ChunkLen ELSE Len(d))

\* Mutant: the bytes are written into the sidecar file itself.
WriteStep_inPlace(fsys, t, name, d) ==
    [fs |-> [fsys EXCEPT ![name] = File(NextChunk(t, d))], tmp |-> File(NextChunk(t, d))]

\* One write of renameio.WriteFile: the bytes go to the temporary file.
WriteStep(fsys, t, name, d) == [fs |-> fsys, tmp |-> File(NextChunk(t, d))]

SetMultipleStart(self, v) ==
    /\ At(self, "idle")
    /\ proc' = [proc EXCEPT ![self].pc = "open",
                            ![self].setAttribs = [k \in {WriterKey(self)} |-> v]]
    /\ UNCHANGED <<fs, cache, res, lockedBy, crashed, prior, persisted, listVars>>

SaveOpenLock(self) ==
    /\ At(self, "open")
    /\ fs' = OpenLockFile(fs, LockfilePath(Obj))
    /\ proc' = [proc EXCEPT ![self].pc = "lock"]
    /\ UNCHANGED <<cache, res, lockedBy, crashed, prior, persisted, listVars>>

SaveLock(self) ==
    /\ At(self, "lock")
    /\ LockFree(lockedBy)
    /\ lockedBy' = self
    /\ proc' = [proc EXCEPT ![self].pc = "invalidate"]
    /\ UNCHANGED <<fs, cache, res, crashed, prior, persisted, listVars>>

SaveInvalidate(self) ==
    /\ At(self, "invalidate")
    /\ cache' = InvalidateEarly(cache, Obj)
    /\ proc' = [proc EXCEPT ![self].pc = "read"]
    /\ UNCHANGED <<fs, res, lockedBy, crashed, prior, persisted, listVars>>

SaveRead(self) ==
    /\ At(self, "read")
    /\ \E cur \in {ReadCurrent(fs[MetadataPath(Obj)])} :
          IF cur.err # Nil
          THEN proc' = [proc EXCEPT ![self].pc = "close", ![self].err = cur.err]
          ELSE \E merged \in {Prepare(cur.attribs, proc[self].setAttribs, {})} :
                  proc' = [proc EXCEPT ![self].pc = "write",
                                       ![self].base = cur.attribs,
                                       ![self].attribs = merged,
                                       ![self].msg = Marshal(merged)]
    /\ UNCHANGED <<fs, cache, res, lockedBy, crashed, prior, persisted, listVars>>

SaveWrite(self) ==
    /\ At(self, "write")
    /\ ~TempComplete(proc[self].tmp, proc[self].msg)
    /\ \E w \in {WriteStep(fs, proc[self].tmp, MetadataPath(Obj), proc[self].msg)} :
          /\ fs' = w.fs
          /\ proc' = [proc EXCEPT ![self].tmp = w.tmp]
    /\ UNCHANGED <<cache, res, lockedBy, crashed, prior, persisted, listVars>>

SaveRename(self) ==
    /\ At(self, "write")
    /\ TempComplete(proc[self].tmp, proc[self].msg)
    /\ fs' = ReplaceFile(fs, MetadataPath(Obj), proc[self].tmp.data)
    /\ proc' = [proc EXCEPT ![self].pc = "push", ![self].tmp = NoFile]
    /\ UNCHANGED <<cache, res, lockedBy, crashed, prior, persisted, listVars>>

SavePush(self) ==
    /\ At(self, "push")
    /\ cache' = Repopulate(cache, Obj, proc[self].attribs)
    /\ proc' = [proc EXCEPT ![self].pc = "close"]
    /\ UNCHANGED <<fs, res, lockedBy, crashed, prior, persisted, listVars>>

\* The deferred f.Close() releases the lock as saveAttributes returns.
SaveClose(self) ==
    /\ At(self, "close")
    /\ lockedBy' = IF lockedBy = self THEN NoProc ELSE lockedBy
    /\ proc' = [proc EXCEPT ![self].pc = "done"]
    /\ UNCHANGED <<fs, cache, res, crashed, prior, persisted, listVars>>

InCall == {"open", "lock", "invalidate", "read", "write", "push", "close"}

\* The process dies inside saveAttributes: the kernel drops its lock, its
\* temporary file stays behind, nothing else is touched.
Crash(self) ==
    /\ self \notin crashed
    /\ Cardinality(crashed) < MaxCrashes
    /\ proc[self].pc \in InCall
    /\ crashed' = crashed \cup {self}
    /\ lockedBy' = IF lockedBy = self THEN NoProc ELSE lockedBy
    /\ UNCHANGED <<fs, cache, res, proc, prior, persisted, listVars>>

AllStart(self) ==
    /\ At(self, "idle")
    /\ proc' = [proc EXCEPT ![self].pc = "pull"]
    /\ UNCHANGED <<fs, cache, res, lockedBy, crashed, prior, persisted, listVars>>

LoadPull(self) ==
    /\ At(self, "pull")
    /\ \E hit \in {PullFromCache(cache, cacheKey(Obj))} :
          proc' = IF hit.found
                  THEN [proc EXCEPT ![self].pc = "done", ![self].attribs = hit.attribs]
                  ELSE [proc EXCEPT ![self].pc = "read"]
    /\ UNCHANGED <<fs, cache, res, lockedBy, crashed, prior, persisted, listVars>>

\* os.Open and io.ReadAll see one file: the one the name led to at the open.
LoadRead(self) ==
    /\ At(self, "read")
    /\ \E f \in {fs[MetadataPath(Obj)]} :
          proc' = IF f.exists
                  THEN [proc EXCEPT ![self].pc = "decode", ![self].msg = f.data]
                  ELSE [proc EXCEPT ![self].pc = "done", ![self].err = OsStat(fs, Obj)]
    /\ UNCHANGED <<fs, cache, res, lockedBy, crashed, prior, persisted, listVars>>

LoadPush(self) ==
    /\ At(self, "decode")
    /\ \E r \in {DecodeAndCache(cache, Obj, proc[self].msg)} :
          /\ cache' = r.cache
          /\ proc' = [proc EXCEPT ![self].pc = "done", ![self].attribs = r.attribs,
                                  ![self].err = r.err]
    /\ UNCHANGED <<fs, res, lockedBy, crashed, prior, persisted, listVars>>

CacheExpiry(key) ==
    /\ cache[key].found
    /\ cache' = [cache EXCEPT ![key] = NoEntry]
    /\ UNCHANGED <<fs, res, procVars, listVars>>

Next ==
    \/ \E self \in Writers, v \in WriterVals : SetMultipleStart(self, v)
    \/ \E self \in Writers : SaveOpenLock(self)
    \/ \E self \in Writers : SaveLock(self)
    \/ \E self \in Writers : SaveInvalidate(self)
    \/ \E self \in Writers : SaveRead(self)
    \/ \E self \in Writers : SaveWrite(self)
    \/ \E self \in Writers : SaveRename(self)
    \/ \E self \in Writers : SavePush(self)
    \/ \E self \in Writers : SaveClose(self)
    \/ \E self \in Writers : Crash(self)
    \/ \E self \in Readers : AllStart(self)
    \/ \E self \in Readers : LoadPull(self)
    \/ \E self \in Readers : LoadRead(self)
    \/ \E self \in Readers : LoadPush(self)
    \/ \E key \in CacheKeys : CacheExpiry(key)

Spec == Init /\ [][Next]_vars

(***************************************************************************)
(* SpecFault: the public methods, one after the other, with calls to the   *)
(* lock file, the file system, the encoder and the cache that may fail.    *)
(* faults is the set of calls that fail in one invocation; res records the *)
(* call that returned last and what it returned.                           *)
(***************************************************************************)
ErrIO == "EIO"
ErrEncode == "encode error"
ErrCache == "cache error"
\* A run-time panic leaves the method instead of a returned error.
Panic == "panic"

FaultKey == Min(Keys)
FaultVal == Min(Vals)

\* lockedfile.OpenFile fails in os.OpenFile ("open": nothing is created) or
\* in taking the lock ("flock": the file is there).  It returns a nil
\* *lockedfile.File, the deferred f.Close() is registered before err is
\* looked at, and runs on that nil pointer when the method returns err.
LockFaults == {"open", "flock"}

saveAttributesFaulty(fsys, c, path, setAttribs, deleteAttribs, acquireLock, faults) ==
    LET lockPath == LockfilePath(path)
        metaPath == MetadataPath(path)
        fs1 == IF acquireLock /\ "open" \notin faults
               THEN OpenLockFile(fsys, lockPath) ELSE fsys
        \* _ = b.metaCache.RemoveMetadata(...): the error is dropped
        c1 == IF "invalidate" \in faults THEN c ELSE InvalidateEarly(c, path)
        cur == IF "read" \in faults THEN [err |-> ErrIO, attribs |-> EmptyMap]
               ELSE ReadCurrent(fs1[metaPath])
        attribs == Prepare(cur.attribs, setAttribs, deleteAttribs)
        d == Marshal(attribs)
    IN  IF acquireLock /\ faults \cap LockFaults # {}
        THEN [fs |-> fs1, cache |-> c, err |-> Panic]
        ELSE IF cur.err # Nil THEN [fs |-> fs1, cache |-> c1, err |-> cur.err]
        ELSE IF "encode" \in faults THEN [fs |-> fs1, cache |-> c1, err |-> ErrEncode]
        ELSE IF "write" \in faults THEN [fs |-> fs1, cache |-> c1, err |-> ErrIO]
        ELSE IF "push" \in faults
             THEN [fs |-> ReplaceFile(fs1, metaPath, d), cache |-> c1, err |-> ErrCache]
        ELSE [fs |-> ReplaceFile(fs1, metaPath, d),
              cache |-> Repopulate(c1, path, attribs),
              err |-> Nil]

\* loadAttributes(path, nil).  A failed PullFromCache is a miss; a failed
\* os.Open other than "not exist" falls through to io.ReadAll, which fails.
loadAttributesFaulty(fsys, c, path, faults) ==
    LET hit == IF "pull" \in faults THEN NoEntry ELSE PullFromCache(c, cacheKey(path))
        metaPath == MetadataPath(path)
        u == IF Len(fsys[metaPath].data) > 0 THEN Unmarshal(fsys[metaPath].data)
             ELSE [err |-> Nil, attribs |-> EmptyMap]
    IN  IF hit.found THEN [attribs |-> hit.attribs, err |-> Nil, cache |-> c]
        ELSE IF "open" \in faults \/ "read" \in faults
             THEN [attribs |-> EmptyMap, err |-> ErrIO, cache |-> c]
        ELSE IF ~fsys[metaPath].exists
             THEN [attribs |-> EmptyMap, err |-> OsStat(fsys, path), cache |-> c]
        ELSE IF u.err # Nil THEN [attribs |-> EmptyMap, err |-> u.err, cache |-> c]
        ELSE IF "push" \in faults
             THEN [attribs |-> EmptyMap, err |-> ErrCache, cache |-> c]
        ELSE [attribs |-> u.attribs, err |-> Nil,
              cache |-> PushToCache(c, cacheKey(path), u.attribs)]

\* Mutant: Purge removes the lock file along with the sidecar file.
purgeFaulty_removesLock(fsys, c, path, faults) ==
    LET r == OsRemove(OsRemove(fsys, LockfilePath(path)).fs, MetadataPath(path))
    IN  IF "invalidate" \in faults THEN [fs |-> fsys, cache |-> c, err |-> ErrCache]
        ELSE IF "remove" \in faults
             THEN [fs |-> fsys, cache |-> RemoveMetadata(c, cacheKey(path)), err |-> ErrIO]
        ELSE [fs |-> r.fs, cache |-> RemoveMetadata(c, cacheKey(path)), err |-> r.err]

purgeFaulty(fsys, c, path, faults) ==
    LET r == OsRemove(fsys, MetadataPath(path))
    IN  IF "invalidate" \in faults THEN [fs |-> fsys, cache |-> c, err |-> ErrCache]
        ELSE IF "remove" \in faults
             THEN [fs |-> fsys, cache |-> RemoveMetadata(c, cacheKey(path)), err |-> ErrIO]
        ELSE [fs |-> r.fs, cache |-> RemoveMetadata(c, cacheKey(path)), err |-> r.err]

renameFaulty(fsys, c, oldPath, newPath, faults) ==
    LET data == IF "pull" \in faults THEN NoEntry
                ELSE PullFromCache(c, cacheKey(oldPath))
        c1 == IF data.found THEN PushToCache(c, cacheKey(newPath), data.attribs) ELSE c
        r == OsRename(fsys, MetadataPath(oldPath), MetadataPath(newPath))
    IN  IF data.found /\ "push" \in faults
        THEN [fs |-> fsys, cache |-> c, err |-> ErrCache]
        ELSE IF "invalidate" \in faults
             THEN [fs |-> fsys, cache |-> c1, err |-> ErrCache]
        ELSE IF "rename" \in faults
             THEN [fs |-> fsys, cache |-> RemoveMetadata(c1, cacheKey(oldPath)),
                   err |-> ErrIO]
        ELSE [fs |-> r.fs, cache |-> RemoveMetadata(c1, cacheKey(oldPath)),
              err |-> r.err]

\* The map that is durably stored for the object at path, if any: what its
\* sidecar file decodes to, the empty map for a sidecar file of no bytes and
\* for an object without a sidecar file.
Durable(fsys, path) ==
    LET f == fsys[MetadataPath(path)]
    IN  IF f.exists
        THEN IF Len(f.data) = 0 THEN {EmptyMap}
             ELSE IF Unmarshal(f.data).err = Nil THEN {Unmarshal(f.data).attribs}
             ELSE {}
        ELSE IF fsys[path].exists THEN {EmptyMap} ELSE {}

\* History after a step: what is stored now is added; a sidecar file that
\* was renamed takes the history of its object along.
Remember(h, fsys, moved) ==
    [p \in Paths |->
        h[p] \cup Durable(fsys, p)
             \cup (IF moved.to = p THEN h[moved.from] ELSE {})]

NotMoved == [from |-> <<>>, to |-> <<>>]

NoCallFaulty ==
    [op |-> "none", path |-> <<>>, newPath |-> <<>>, acquireLock |-> FALSE,
     err |-> Nil, attribs |-> EmptyMap, cacheFailed |-> {}]

\* The cache calls that failed in an invocation: the pull and the invalidation
\* are always reached (but for the panic), the push only by a call that then
\* returns the cache's error.
FailedCacheCalls(faults, err) ==
    IF err = Panic THEN {}
    ELSE (faults \cap {"pull", "invalidate"})
         \cup (IF err = ErrCache THEN faults \cap {"push"} ELSE {})

InitFault ==
    /\ fs \in InitFiles
    /\ cache = [k \in CacheKeys |-> NoEntry]
    /\ res = NoCallFaulty
    /\ IdleProcs
    /\ prior = EmptyMap
    /\ persisted = [p \in Paths |-> Durable(fs, p)]
    /\ NoListing

SaveFaulty(name, path, setAttribs, deleteAttribs, acquireLock, faults) ==
    \E r \in {saveAttributesFaulty(fs, cache, path, setAttribs, deleteAttribs,
                                   acquireLock, faults)} :
        /\ fs' = r.fs
        /\ cache' = r.cache
        /\ res' = [NoCallFaulty EXCEPT !.op = name, !.path = path,
                       !.acquireLock = acquireLock, !.err = r.err,
                       !.cacheFailed = FailedCacheCalls(faults, r.err)]
        /\ persisted' = Remember(persisted, r.fs, NotMoved)
        /\ UNCHANGED <<proc, lockedBy, crashed, prior, listVars>>

SetMultipleFaulty(path, attribs, acquireLock, faults) ==
    SaveFaulty("SetMultiple", path, attribs, {}, acquireLock, faults)

RemoveFaulty(path, key, faults) ==
    SaveFaulty("Remove", path, EmptyMap, {key}, TRUE, faults)

AllFaulty(path, faults) ==
    \E r \in {loadAttributesFaulty(fs, cache, path, faults)} :
        /\ cache' = r.cache
        /\ res' = [NoCallFaulty EXCEPT !.op = "All", !.path = path,
                       !.err = r.err, !.attribs = r.attribs,
                       !.cacheFailed = FailedCacheCalls(faults, r.err)]
        /\ UNCHANGED <<fs, persisted, proc, lockedBy, crashed, prior, listVars>>

PurgeFaulty(path, faults) ==
    \E r \in {purgeFaulty(fs, cache, path, faults)} :
        /\ fs' = r.fs
        /\ cache' = r.cache
        /\ res' = [NoCallFaulty EXCEPT !.op = "Purge", !.path = path, !.err = r.err,
                       !.cacheFailed = FailedCacheCalls(faults, r.err)]
        /\ persisted' = Remember(persisted, r.fs, NotMoved)
        /\ UNCHANGED <<proc, lockedBy, crashed, prior, listVars>>

RenameFaulty(oldPath, newPath, faults) ==
    \E r \in {renameFaulty(fs, cache, oldPath, newPath, faults)} :
        /\ fs' = r.fs
        /\ cache' = r.cache
        /\ res' = [NoCallFaulty EXCEPT !.op = "Rename", !.path = oldPath,
                       !.newPath = newPath, !.err = r.err,
                       !.cacheFailed = FailedCacheCalls(faults, r.err)]
        /\ persisted' = Remember(persisted, r.fs,
                                 IF r.err = Nil THEN [from |-> oldPath, to |-> newPath]
                                 ELSE NotMoved)
        /\ UNCHANGED <<proc, lockedBy, crashed, prior, listVars>>

ExpireFaulty(key) ==
    /\ cache[key].found
    /\ cache' = [cache EXCEPT ![key] = NoEntry]
    /\ res' = [NoCallFaulty EXCEPT !.op = "expire"]
    /\ UNCHANGED <<fs, procVars, listVars>>

\* The calls of saveAttributes after the lock that can fail.
SaveFaultPoints == {"invalidate", "read", "encode", "write", "push"}

\* No call fails, one does, or the cache invalidation and the write do.
SaveFaults(acquireLock) ==
    {{}} \cup {{f} : f \in SaveFaultPoints \cup (IF acquireLock THEN LockFaults ELSE {})}
         \cup {{"invalidate", "write"}}

OneOf(points) == {{}} \cup {{f} : f \in points}

NextFault ==
    \/ \E path \in Paths, acquireLock \in BOOLEAN :
          \E faults \in SaveFaults(acquireLock) :
              SetMultipleFaulty(path, [k \in {FaultKey} |-> FaultVal], acquireLock, faults)
    \/ \E path \in Paths, faults \in OneOf(SaveFaultPoints) :
          RemoveFaulty(path, FaultKey, faults)
    \/ \E path \in Paths, faults \in OneOf({"pull", "open", "read", "push"}) :
          AllFaulty(path, faults)
    \/ \E path \in Paths, faults \in OneOf({"invalidate", "remove"}) :
          PurgeFaulty(path, faults)
    \/ \E oldPath \in Paths : \E newPath \in Paths \ {oldPath} :
          \E faults \in OneOf({"pull", "push", "invalidate", "rename"}) :
              RenameFaulty(oldPath, newPath, faults)
    \/ \E key \in CacheKeys : ExpireFaulty(key)

SpecFault == InitFault /\ [][NextFault]_vars

(***************************************************************************)
(* SpecLive: Spec with calls of the writers that fail, and with every      *)
(* writer that can take a step taking one eventually.                      *)
(***************************************************************************)
\* Mutant: an error return leaves the method without the deferred Close.
AfterError_keepsLock == "done"

\* return err: the deferred f.Close() is what runs next.
AfterError == "close"

\* lockedfile.OpenFile fails, in os.OpenFile or in taking the lock: the
\* method is left by the panic of the deferred Close, no lock is held.
SaveLockFails(self) ==
    /\ \/ At(self, "open")
       \/ At(self, "lock")
    /\ proc' = [proc EXCEPT ![self].pc = "done", ![self].err = Panic]
    /\ UNCHANGED <<fs, cache, res, lockedBy, crashed, prior, persisted, listVars>>

\* os.ReadFile fails with an error other than "not exist".
SaveReadFails(self) ==
    /\ At(self, "read")
    /\ proc' = [proc EXCEPT ![self].pc = AfterError, ![self].err = ErrIO]
    /\ UNCHANGED <<fs, cache, res, lockedBy, crashed, prior, persisted, listVars>>

\* renameio.WriteFile fails and removes its temporary file.
SaveWriteFails(self) ==
    /\ At(self, "write")
    /\ proc' = [proc EXCEPT ![self].pc = AfterError, ![self].err = ErrIO,
                            ![self].tmp = NoFile]
    /\ UNCHANGED <<fs, cache, res, lockedBy, crashed, prior, persisted, listVars>>

WriterStep(self) ==
    \/ SaveOpenLock(self)
    \/ SaveLock(self)
    \/ SaveInvalidate(self)
    \/ SaveRead(self)
    \/ SaveWrite(self)
    \/ SaveRename(self)
    \/ SavePush(self)
    \/ SaveClose(self)

NextLive ==
    \/ Next
    \/ \E self \in Writers : SaveLockFails(self)
    \/ \E self \in Writers : SaveReadFails(self)
    \/ \E self \in Writers : SaveWriteFails(self)

SpecLive ==
    /\ Init
    /\ [][NextLive]_vars
    /\ \A self \in Writers : WF_vars(WriterStep(self))

(***************************************************************************)
(* SpecClassify: IsMetaFile applied to the names found in a tree: object   *)
(* paths and what MetadataPath, LockfilePath and other suffixes make of    *)
(* them.  A string is the sequence of its tokens: ".mpk.lock" is ".mpk"    *)
(* followed by ".lock", and ".mlock" is a token of its own.                *)
(***************************************************************************)
MaxDepth == 2

HasSuffix(s, suffix) ==
    /\ Len(s) >= Len(suffix)
    /\ SubSeq(s, Len(s) - Len(suffix) + 1, Len(s)) = suffix

\* strings.HasSuffix(path, ".mpk") || strings.HasSuffix(path, ".mpk.lock")
IsMetaFile(path) == HasSuffix(path, <<".mpk">>) \/ HasSuffix(path, <<".mpk", ".lock">>)

Segments == {"a", "b"}

RECURSIVE PathsBelow(_, _)
PathsBelow(dir, depth) ==
    IF depth = 0 THEN {}
    ELSE LET children == {dir \o <<"/", seg>> : seg \in Segments}
         IN  children \cup UNION {PathsBelow(c, depth - 1) : c \in children}

ObjectPaths == PathsBelow(rootPath, MaxDepth)

Suffixes == {<<>>, <<".mpk">>, <<".mlock">>, <<".lock">>}

TreeNames == {p \o s1 \o s2 : p \in ObjectPaths, s1 \in Suffixes, s2 \in Suffixes}

InitClassify ==
    /\ fs \in InitFiles
    /\ cache = [k \in CacheKeys |-> NoEntry]
    /\ res = NoCall
    /\ IdleProcs
    /\ prior = EmptyMap
    /\ persisted = [p \in Paths |-> {}]
    /\ NoListing

Classify(name) ==
    /\ res' = [op |-> "IsMetaFile", path |-> name, val |-> IsMetaFile(name)]
    /\ UNCHANGED <<fs, cache, procVars, listVars>>

NextClassify == \E name \in TreeNames : Classify(name)

SpecClassify == InitClassify /\ [][NextClassify]_vars

(***************************************************************************)
(* SpecShares: one call of listExistingShares (ocgraph/shares.go).  The    *)
(* caller, the workers of the pool and the collecting goroutine take their *)
(* steps in any order.  A share is given by what Stat answers for it:      *)
(* "ok" (no error, CODE_OK), "err" (an error) or "denied" (no error,       *)
(* another status code); a pair is given by the index of its share.        *)
(* The pool is pond's: Submit hands the task to the queue when a worker is *)
(* idle, else starts a worker if fewer than the maximum run, else waits    *)
(* for room in the queue; StopAndWait returns when every submitted task    *)
(* has run, and the workers exit.                                          *)
(***************************************************************************)
StatAnswers == {"ok", "err", "denied"}

RECURSIVE SeqsUpTo(_, _)
SeqsUpTo(S, n) ==
    IF n = 0 THEN {<<>>}
    ELSE LET shorter == SeqsUpTo(S, n - 1)
         IN  shorter \cup {Append(l, x) : l \in shorter, x \in S}

ShareLists == SeqsUpTo(StatAnswers, MaxShares)

\* Both channels are made with the number of listed shares as capacity.
Capacity == Len(rshares)

\* Lines 355-360: the task sends a pair only if Stat returned no error and
\* the status CODE_OK.
StatOk_ignoresStatus(answer) == answer # "err"

StatOk(answer) == answer = "ok"

IdleWorkers == {w \in Workers : workers[w].state = "idle"}

RunningWorkers == {w \in Workers : workers[w].state \notin {"none", "stopped"}}

InitShares ==
    /\ fs \in {f \in InitFiles : \A n \in FileNames \ {PathA} : ~f[n].exists}
    /\ cache = [k \in CacheKeys |-> NoEntry]
    /\ res = NoCall
    /\ IdleProcs
    /\ prior = EmptyMap
    /\ persisted = [p \in Paths |-> {}]
    /\ rshares = <<>>
    /\ pc = [main |-> "list", collector |-> "none"]
    /\ submitted = 0
    /\ tasks = <<>>
    /\ workers = [w \in Workers |-> NoWorker]
    /\ sharesCh = [buf |-> <<>>, closed |-> FALSE]
    /\ doneCh = [closed |-> FALSE]
    /\ sris = <<>>

storeVars == <<fs, cache, res, procVars>>

\* Lines 334-344: the gateway lists the shares.
ListShares(list) ==
    /\ pc.main = "list"
    /\ rshares' = list
    /\ pc' = [pc EXCEPT !.main = "submit"]
    /\ UNCHANGED <<submitted, tasks, workers, sharesCh, doneCh, sris, storeVars>>

\* Lines 334-342: no client, or ListShares fails: the error is returned.
ListSharesFails ==
    /\ pc.main = "list"
    /\ pc' = [pc EXCEPT !.main = "failed"]
    /\ UNCHANGED <<rshares, submitted, tasks, workers, sharesCh, doneCh, sris,
                   storeVars>>

\* Lines 346-367: the next share is submitted to the pool.
Submit ==
    /\ pc.main = "submit"
    /\ submitted < Len(rshares)
    /\ \E i \in {submitted + 1} :
         IF IdleWorkers # {} /\ Len(tasks) < Capacity
           THEN /\ tasks' = Append(tasks, i)
                /\ UNCHANGED workers
         ELSE IF Cardinality(RunningWorkers) < MaxWorkers
           THEN /\ \E w \in Workers \ RunningWorkers :
                      workers' = [workers EXCEPT ![w] = [state |-> "stat", task |-> i]]
                /\ UNCHANGED tasks
         ELSE /\ Len(tasks) < Capacity
              /\ tasks' = Append(tasks, i)
              /\ UNCHANGED workers
    /\ submitted' = submitted + 1
    /\ UNCHANGED <<rshares, pc, sharesCh, doneCh, sris, storeVars>>

\* Lines 369-376: all shares are submitted; the collecting goroutine starts.
StartCollector ==
    /\ pc.main = "submit"
    /\ submitted = Len(rshares)
    /\ pc' = [main |-> "stopAndWait", collector |-> "range"]
    /\ UNCHANGED <<rshares, submitted, tasks, workers, sharesCh, doneCh, sris,
                   storeVars>>

\* Line 377: returns once every submitted task has run.
StopAndWait ==
    /\ pc.main = "stopAndWait"
    /\ tasks = <<>>
    /\ \A w \in Workers : workers[w].state \in {"none", "idle"}
    /\ workers' = [w \in Workers |-> [state |-> "stopped", task |-> 0]]
    /\ pc' = [pc EXCEPT !.main = "close"]
    /\ UNCHANGED <<rshares, submitted, tasks, sharesCh, doneCh, sris, storeVars>>

\* Line 378.
CloseSharesCh ==
    /\ pc.main = "close"
    /\ sharesCh' = [sharesCh EXCEPT !.closed = TRUE]
    /\ pc' = [pc EXCEPT !.main = "recvDone"]
    /\ UNCHANGED <<rshares, submitted, tasks, workers, doneCh, sris, storeVars>>

\* Lines 375 and 379: done is unbuffered, the send and the receive meet.
Done ==
    /\ pc.main = "recvDone"
    /\ pc.collector = "sendDone"
    /\ ~doneCh.closed
    /\ pc' = [main |-> "closeDone", collector |-> "exited"]
    /\ UNCHANGED <<rshares, submitted, tasks, workers, sharesCh, doneCh, sris,
                   storeVars>>

\* Lines 380-382: done is closed and sris is returned.
CloseDone ==
    /\ pc.main = "closeDone"
    /\ doneCh' = [doneCh EXCEPT !.closed = TRUE]
    /\ pc' = [pc EXCEPT !.main = "returned"]
    /\ UNCHANGED <<rshares, submitted, tasks, workers, sharesCh, sris, storeVars>>

\* An idle worker takes the next task of the queue.
WorkerTake(w) ==
    /\ workers[w].state = "idle"
    /\ tasks # <<>>
    /\ workers' = [workers EXCEPT ![w] = [state |-> "stat", task |-> Head(tasks)]]
    /\ tasks' = Tail(tasks)
    /\ UNCHANGED <<rshares, pc, submitted, sharesCh, doneCh, sris, storeVars>>

\* Lines 350-360: Stat answers; the task ends here unless the answer is good.
WorkerStat(w) ==
    /\ workers[w].state = "stat"
    /\ workers' = [workers EXCEPT ![w] =
                      IF StatOk(rshares[workers[w].task])
                        THEN [@ EXCEPT !.state = "send"]
                        ELSE [state |-> "idle", task |-> 0]]
    /\ UNCHANGED <<rshares, pc, submitted, tasks, sharesCh, doneCh, sris, storeVars>>

\* Lines 362-365: the pair is sent on sharesCh, when there is room.
WorkerSend(w) ==
    /\ workers[w].state = "send"
    /\ ~sharesCh.closed
    /\ Len(sharesCh.buf) < Capacity
    /\ sharesCh' = [sharesCh EXCEPT !.buf = Append(@, workers[w].task)]
    /\ workers' = [workers EXCEPT ![w] = [state |-> "idle", task |-> 0]]
    /\ UNCHANGED <<rshares, pc, submitted, tasks, doneCh, sris, storeVars>>

\* Lines 372-374: the collecting goroutine appends the next pair.
Collect ==
    /\ pc.collector = "range"
    /\ sharesCh.buf # <<>>
    /\ sris' = Append(sris, Head(sharesCh.buf))
    /\ sharesCh' = [sharesCh EXCEPT !.buf = Tail(@)]
    /\ UNCHANGED <<rshares, pc, submitted, tasks, workers, doneCh, storeVars>>

\* Line 372: the range ends when sharesCh is closed and drained.
RangeEnds ==
    /\ pc.collector = "range"
    /\ sharesCh.buf = <<>>
    /\ sharesCh.closed
    /\ pc' = [pc EXCEPT !.collector = "sendDone"]
    /\ UNCHANGED <<rshares, submitted, tasks, workers, sharesCh, doneCh, sris,
                   storeVars>>

MainStep ==
    \/ \E list \in ShareLists : ListShares(list)
    \/ ListSharesFails
    \/ Submit
    \/ StartCollector
    \/ StopAndWait
    \/ CloseSharesCh
    \/ Done
    \/ CloseDone

WorkerStep(w) == WorkerTake(w) \/ WorkerStat(w) \/ WorkerSend(w)

CollectorStep == Collect \/ RangeEnds \/ Done

NextShares ==
    \/ \E list \in ShareLists : ListShares(list)
    \/ ListSharesFails
    \/ Submit
    \/ StartCollector
    \/ StopAndWait
    \/ CloseSharesCh
    \/ Done
    \/ CloseDone
    \/ \E w \in Workers : WorkerTake(w)
    \/ \E w \in Workers : WorkerStat(w)
    \/ \E w \in Workers : WorkerSend(w)
    \/ Collect
    \/ RangeEnds

\* Every goroutine that can take a step takes one.
SpecShares ==
    /\ InitShares
    /\ [][NextShares]_vars
    /\ WF_vars(MainStep)
    /\ WF_vars(CollectorStep)
    /\ \A w \in Workers : WF_vars(WorkerStep(w))

(***************************************************************************)
(* Properties of the methods called one after the other (SpecSeq).         *)
(***************************************************************************)
ReadOps == {"All", "Get", "List"}

SetOk(r) == r.op = "SetMultiple" /\ r.err = Nil

MutationOk(r) == r.op \in {"SetMultiple", "Remove"} /\ r.err = Nil

\* m holds every pair of M.
Has(m, M) == \A k \in DOMAIN M : k \in DOMAIN m /\ m[k] = M[k]

\* A read of path that finds no cache entry.
Bypassed(c, path) == RemoveMetadata(c, cacheKey(path))

Returns(r, attribs) == r.err = Nil /\ r.attribs = attribs

ReturnsAtLeast(r, attribs) == r.err = Nil /\ Has(r.attribs, attribs)

\* C2: after a successful SetMultiple(path, M) an All(path) returns M's value
\* for every key of M, from the cache and from the sidecar file alike; on an
\* object that had no attributes before the write it returns exactly M.
C2_RoundTrip ==
    /\ [](SetOk(res) =>
            /\ cache[cacheKey(res.path)].found
            /\ ReturnsAtLeast(loadAttributes(fs, cache, res.path, NoSource),
                              res.setAttribs)
            /\ ReturnsAtLeast(loadAttributes(fs, Bypassed(cache, res.path), res.path,
                                             NoSource),
                              res.setAttribs))
    /\ [][(SetOk(res') /\ Stored(fs, res'.path) = EmptyMap) =>
            /\ Returns(loadAttributes(fs', cache', res'.path, NoSource),
                       res'.setAttribs)
            /\ Returns(loadAttributes(fs', Bypassed(cache', res'.path), res'.path,
                                      NoSource),
                       res'.setAttribs)]_vars

C2_Witness ==
    /\ SetOk(res)
    /\ Cardinality(DOMAIN res.setAttribs) = 2
    /\ Stored(fs, res.path) = res.setAttribs

\* No cache entry and no sidecar file for path.
Gone(fsys, c, path) ==
    /\ ~c[cacheKey(path)].found
    /\ ~fsys[MetadataPath(path)].exists

\* C5: a read that misses the cache and finds no sidecar file succeeds with
\* the empty map if the object exists (Get then reports the key as absent)
\* and fails with the object's not-found error, returning nothing, if not.
C5_MissingSidecar ==
    [][(res'.op \in ReadOps /\ Gone(fs, cache, res'.path)) =>
          /\ res'.attribs = EmptyMap /\ res'.names = {} /\ res'.val = 0
          /\ res'.err = IF ~fs[res'.path].exists THEN ErrNotExist
                        ELSE IF res'.op = "Get" THEN ENOATTR ELSE Nil]_vars

C5_Witness ==
    /\ res.op = "All" /\ res.err = ErrNotExist
    /\ Gone(fs, cache, res.path) /\ ~fs[res.path].exists

\* C6 (as claimed): a read that misses the cache and finds a zero-length
\* sidecar file returns an error and caches nothing.
C6_EmptySidecarIsCorruption ==
    [][(/\ res'.op \in ReadOps
        /\ ~cache[cacheKey(res'.path)].found
        /\ fs[MetadataPath(res'.path)].exists
        /\ Len(fs[MetadataPath(res'.path)].data) = 0) =>
          /\ res'.err \notin {Nil, ENOATTR}
          /\ ~cache'[cacheKey(res'.path)].found]_vars

\* C7: once SetMultiple, Set or Remove has returned without error, All
\* returns the merged map, which is what the sidecar file holds, whatever the
\* cache held before the call.
C7_CoherentAfterWrite ==
    MutationOk(res) =>
        /\ fs[MetadataPath(res.path)].exists
        /\ Returns(loadAttributes(fs, cache, res.path, NoSource),
                   Stored(fs, res.path))
        /\ Has(Stored(fs, res.path), res.setAttribs)
        /\ res.op = "Remove" => res.key \notin DOMAIN Stored(fs, res.path)

C7_Witness == MutationOk(res) /\ res.stale

\* The call that returned wrote the sidecar file of path.
WriteOn(r, path) ==
    \/ r.op \in {"SetMultiple", "Remove"} /\ r.path = path
    \/ r.op = "Rename" /\ r.newPath = path

\* All(path) answers as for an object without sidecar file and leaves the
\* cache as it is.
AsNoSidecar(fsys, c, path) ==
    loadAttributes(fsys, c, path, NoSource) =
        [attribs |-> EmptyMap, err |-> OsStat(fsys, path), cache |-> c]

\* C8: a successful Purge leaves neither cache entry nor sidecar file, which
\* stays so until the next write on the path, every All in between answering
\* as for an object without sidecar file; Purge without sidecar file fails.
C8_Purge ==
    /\ []((res.op = "Purge" /\ res.err = Nil) =>
            Gone(fs, cache, res.path) /\ AsNoSidecar(fs, cache, res.path))
    /\ [][\A path \in Paths :
            (Gone(fs, cache, path) /\ ~WriteOn(res', path)) =>
                /\ Gone(fs', cache', path)
                /\ AsNoSidecar(fs', cache', path)
                /\ (res'.op = "All" /\ res'.path = path) =>
                      /\ res'.attribs = EmptyMap
                      /\ res'.err = OsStat(fs, path)]_vars
    /\ [][(res'.op = "Purge" /\ ~fs[MetadataPath(res'.path)].exists) =>
            res'.err # Nil /\ fs' = fs]_vars

C8_Witness ==
    /\ res.op = "Purge" /\ res.err = Nil
    /\ fs[LockfilePath(res.path)].exists

\* C9 (as claimed, for an old sidecar file that decodes): after a successful
\* Rename, All(newPath) returns what All(oldPath) returned before it, and
\* oldPath has neither cache entry nor sidecar file left.
C9_RenamePreservesContent ==
    [][(/\ res'.op = "Rename" /\ res'.err = Nil
        /\ Unmarshal(fs[MetadataPath(res'.path)].data).err = Nil) =>
          /\ Returns(loadAttributes(fs', cache', res'.newPath, NoSource),
                     loadAttributes(fs, cache, res'.path, NoSource).attribs)
          /\ Gone(fs', cache', res'.path)]_vars

\* The keys a mutation deletes.
Deleted(r) == IF r.op = "Remove" THEN {r.key} ELSE {}

\* after is before with the pairs of setAttribs written over it and then the
\* keys of deleteAttribs removed, every other key as it was.
MergedFrom(before, after, setAttribs, deleteAttribs) ==
    \A k \in DOMAIN before \cup DOMAIN after \cup DOMAIN setAttribs \cup deleteAttribs :
        IF k \in deleteAttribs THEN k \notin DOMAIN after
        ELSE IF k \in DOMAIN setAttribs
             THEN k \in DOMAIN after /\ after[k] = setAttribs[k]
        ELSE /\ k \in DOMAIN after <=> k \in DOMAIN before
             /\ k \in DOMAIN after => after[k] = before[k]

\* C10: a mutation stores, and All then returns, the stored map with the set
\* entries written over it and the deleted keys removed; Get of a key that a
\* successfully loaded map does not hold fails with ENOATTR.
C10_MergeSemantics ==
    /\ [][MutationOk(res') =>
            /\ MergedFrom(Stored(fs, res'.path), Stored(fs', res'.path),
                          res'.setAttribs, Deleted(res'))
            /\ Returns(loadAttributes(fs', cache', res'.path, NoSource),
                       Stored(fs', res'.path))]_vars
    /\ [][(/\ res'.op = "Get"
           /\ loadAttributes(fs, cache, res'.path, NoSource).err = Nil) =>
            IF res'.key \in DOMAIN loadAttributes(fs, cache, res'.path, NoSource).attribs
            THEN /\ res'.err = Nil
                 /\ res'.val =
                      loadAttributes(fs, cache, res'.path, NoSource).attribs[res'.key]
            ELSE res'.err = ENOATTR /\ ENOATTR # ErrNotExist]_vars

C10_Witness ==
    /\ res.op = "Get" /\ res.err = ENOATTR
    /\ Stored(fs, res.path) # EmptyMap
    /\ res.key \notin DOMAIN Stored(fs, res.path)

(***************************************************************************)
(* Properties of concurrent calls (Spec).                                  *)
(***************************************************************************)
Completed == {w \in Writers : proc[w].pc = "done"}

\* The writers that have replaced the sidecar file.
Replaced == {w \in Writers : proc[w].pc \in {"push", "close", "done"}}

\* The writers that hold their merged map and have not returned or crashed.
Merging == {w \in Writers \ crashed : proc[w].pc \in {"write", "push", "close"}}

UnionOfAll ==
    [k \in DOMAIN prior \cup WriterKeys |->
        IF k \in WriterKeys
        THEN proc[CHOOSE w \in Writers : WriterKey(w) = k].setAttribs[k]
        ELSE prior[k]]

\* C1: writers that concurrently call SetMultiple with the lock, each on a
\* key of its own, all succeed; every completed writer's pair is in the
\* stored map, every writer merges into a map that already holds the pairs
\* of the writers completed before it, and once all have returned the stored
\* map is the union of the prior map and all contributions.
C1_NoLostUpdate ==
    /\ \A w \in Completed :
          /\ proc[w].err = Nil
          /\ Has(Stored(fs, Obj), proc[w].setAttribs)
    /\ \A w \in Merging : \A done \in Completed :
          Has(proc[w].attribs, proc[done].setAttribs)
    /\ Completed = Writers => Stored(fs, Obj) = UnionOfAll

C1_Witness ==
    /\ Completed = Writers
    /\ PriorKey \in DOMAIN prior
    /\ Cardinality(DOMAIN Stored(fs, Obj)) = NWriters + 1

\* The encodings that were the whole content of the sidecar file at some
\* moment so far: the prior one and the one of every writer that replaced it.
Versions == {Marshal(prior)} \cup {proc[w].msg : w \in Replaced}

VersionMaps == {prior} \cup {proc[w].attribs : w \in Replaced}

\* C3: in every state, also in the middle of a mutation, the sidecar file
\* is absent or holds a complete encoding that a mutation fully wrote (or
\* the prior one); the bytes a lock-free reader got from the file are one
\* such complete encoding, and the map it returns is a complete version.
C3_AtomicReplace ==
    /\ LET f == fs[MetadataPath(Obj)]
       IN  f.exists => f.data \in Versions /\ Unmarshal(f.data).err = Nil
    /\ \A r \in Readers :
          /\ proc[r].pc = "decode" =>
                /\ proc[r].msg \in Versions
                /\ Unmarshal(proc[r].msg).err = Nil
          /\ proc[r].pc = "done" =>
                /\ proc[r].err = Nil
                /\ proc[r].attribs \in VersionMaps

\* A reader holds the bytes it read while a writer is in the middle of
\* writing its temporary file.
C3_Witness ==
    \E r \in Readers, w \in Writers \ crashed :
        /\ proc[r].pc = "decode"
        /\ proc[w].pc = "write"
        /\ proc[w].tmp.exists
        /\ ~TempComplete(proc[w].tmp, proc[w].msg)

HoldsLock == {"invalidate", "read", "write", "push", "close"}

\* The stored map before the writer's mutation: what it decoded, or what
\* is stored while it has not read yet.
PreWrite(w) ==
    IF proc[w].pc \in {"invalidate", "read"} THEN Stored(fs, Obj) ELSE proc[w].base

PreOrPost(w, m) ==
    \/ m = PreWrite(w)
    \/ MergedFrom(PreWrite(w), m, proc[w].setAttribs, {})

CrashesNow(w) == w \notin crashed /\ w \in crashed' /\ proc[w].pc \in HoldsLock

\* C4: when a writer crashes at a step of its mutation at which it holds
\* the lock, the sidecar file holds the complete map from before the write
\* or the complete merged map, ...
C4_SidecarAfterCrash ==
    [][\A w \in Writers : CrashesNow(w) =>
          LET f == fs'[MetadataPath(Obj)]
          IN  /\ f.exists => Unmarshal(f.data).err = Nil
              /\ PreOrPost(w, Stored(fs', Obj))]_vars

\* C4: ... and an All(path) issued after the crash returns one of these two
\* maps and no error.
C4_CrashSafety ==
    [][\A w \in Writers : CrashesNow(w) =>
          LET f == fs'[MetadataPath(Obj)]
              r == loadAttributes(fs', cache', Obj, NoSource)
          IN  /\ f.exists => Unmarshal(f.data).err = Nil
              /\ PreOrPost(w, Stored(fs', Obj))
              /\ r.err = Nil
              /\ PreOrPost(w, r.attribs)]_vars

(***************************************************************************)
(* Properties of the methods when calls fail (SpecFault).                  *)
(***************************************************************************)
MutationOps == {"SetMultiple", "Remove"}

\* The step is a mutation that failed before it replaced the sidecar file:
\* in taking the lock, reading the base, encoding, or the atomic write.
FailedMutation(r) == r.op \in MutationOps /\ r.err \notin {Nil, ErrCache}

\* What a failed mutation must leave alone: the sidecar file, and a cache
\* entry that is absent or the one that was there.
NothingApplied(path) ==
    /\ fs'[MetadataPath(path)] = fs[MetadataPath(path)]
    /\ \/ ~cache'[cacheKey(path)].found
       \/ cache'[cacheKey(path)] = cache[cacheKey(path)]

\* C11: a mutation that fails in lock acquisition, in reading the base, in
\* encoding or in the atomic write returns that error to its caller, the
\* sidecar file keeps its content and no cache entry with any part of the
\* arguments is created.
C11_AllOrNothing ==
    [][FailedMutation(res') =>
          /\ res'.err # Panic
          /\ NothingApplied(res'.path)]_vars

\* C11, without the return: whatever way a mutation fails before the
\* replace, nothing of it is stored or cached.
C11_NothingApplied ==
    [][FailedMutation(res') => NothingApplied(res'.path)]_vars

\* C12: in every reachable state, whatever calls succeeded or failed before,
\* the value of each cache entry is a map that was, then or earlier, the
\* durably stored map of the object its key denotes.
C12_CachedWasPersisted ==
    \A p \in Paths :
        cache[cacheKey(p)].found => cache[cacheKey(p)].attribs \in persisted[p]

(***************************************************************************)
(* Properties of the lock (SpecLive).                                      *)
(***************************************************************************)
InCriticalSection == {w \in Writers \ crashed : proc[w].pc \in HoldsLock}

\* C13: at most one mutation is between taking and releasing the lock, and
\* the lock is held by nobody else: it is released on the successful
\* return, on each error return and when the holder dies.
MutualExclusion ==
    /\ Cardinality(InCriticalSection) <= 1
    /\ lockedBy # NoProc => InCriticalSection = {lockedBy}
    /\ lockedBy = NoProc => InCriticalSection = {}

Returned(w) == proc[w].pc = "done" \/ w \in crashed

\* C13: mutual exclusion as above, and, with every writer that can step
\* stepping eventually, a writer waiting for the lock gets it (or leaves by
\* a failure) and every mutation that was called returns.
C13_LockDiscipline ==
    /\ []MutualExclusion
    /\ \A w \in Writers :
          (proc[w].pc = "lock") ~> (proc[w].pc # "lock" \/ w \in crashed)
    /\ \A w \in Writers : (proc[w].pc \in InCall) ~> Returned(w)

\* A writer holds the lock after another one left by an error return.
C13_Witness ==
    \E w \in Writers, failed \in Writers :
        /\ lockedBy = w
        /\ proc[w].pc = "write"
        /\ proc[failed].pc = "done"
        /\ proc[failed].err = ErrIO

\* The mutation failed after its invalidation step: not in taking the lock.
FailedAfterInvalidation(r) == r.op \in MutationOps /\ r.err \notin {Nil, Panic}

\* C14: the steps of a mutation come in the order lock, invalidate, read
\* from disk, replace, push; so after a mutation that fails after the
\* invalidation step the cache entry of the object is absent, and after one
\* that succeeds it is the map the sidecar file now holds.
C14_InvalidateFirst ==
    [][/\ FailedAfterInvalidation(res') => ~cache'[cacheKey(res'.path)].found
       /\ (res'.op \in MutationOps /\ res'.err = Nil) =>
             cache'[cacheKey(res'.path)] = Entry(Stored(fs', res'.path))]_vars

\* C15: a cache call that fails makes the operation return an error, but
\* for the pull of the old key in Rename; a mutation whose cache
\* invalidation fails leaves the sidecar file as it was.
C15_CacheFailureFatal ==
    [][(/\ res'.cacheFailed # {}
        /\ ~(res'.op = "Rename" /\ res'.cacheFailed = {"pull"})) =>
          /\ res'.err # Nil
          /\ ("invalidate" \in res'.cacheFailed /\ res'.op \in MutationOps) =>
                fs'[MetadataPath(res'.path)] = fs[MetadataPath(res'.path)]]_vars

\* C15, for the calls whose error the code does look at: a failed push in a
\* mutation or a read, a failed invalidation in Purge, a failed push or
\* invalidation in Rename.
C15_CheckedFailures ==
    [][(res'.cacheFailed # {} /\ res'.err = Nil) =>
          \/ res'.op \in MutationOps /\ res'.cacheFailed = {"invalidate"}
          \/ res'.op \in {"All", "Rename"} /\ res'.cacheFailed = {"pull"}]_vars

(***************************************************************************)
(* More properties of the methods called one after the other (SpecSeq).    *)
(***************************************************************************)
\* The read got its map from loadAttributes without an error.
LoadedOk(r) ==
    \/ r.op \in {"All", "AllWithLockedSource", "List"} /\ r.err = Nil
    \/ r.op = "Get" /\ r.err \in {Nil, ENOATTR}

\* C16: after every successful read the cache holds an entry for the object,
\* pushed by the read if it missed, also when the map is empty because there
\* is no sidecar file; All leaves in the cache the map it returns; a read
\* that hits returns the cached map and changes nothing.
C16_ReadPopulatesCache ==
    [][LoadedOk(res') =>
          /\ cache'[cacheKey(res'.path)].found
          /\ res'.op = "All" => cache'[cacheKey(res'.path)] = Entry(res'.attribs)
          /\ cache[cacheKey(res'.path)].found => cache' = cache /\ fs' = fs]_vars

(***************************************************************************)
(* More properties of concurrent calls (Spec).                             *)
(***************************************************************************)
ReaderSteps(r) == AllStart(r) \/ LoadPull(r) \/ LoadRead(r) \/ LoadPush(r)

\* C17: a read never takes, waits for or creates the lock file and never
\* changes the sidecar file: whoever holds the lock and for however long, a
\* reader that has not returned can take its next step, and a step of a
\* reader changes no file, not the lock, and of the cache at most the entry
\* of its object.
C17_ReadsLockFree ==
    /\ [](\A r \in Readers : proc[r].pc # "done" => ENABLED ReaderSteps(r))
    /\ [][(\E r \in Readers : proc'[r] # proc[r]) =>
             /\ fs' = fs
             /\ lockedBy' = lockedBy
             /\ \A k \in CacheKeys \ {cacheKey(Obj)} : cache'[k] = cache[k]]_vars

\* The reader has returned the map of a writer that still holds the lock.
C17_Witness ==
    \E r \in Readers, w \in Writers \ crashed :
        /\ lockedBy = w
        /\ proc[w].pc = "close"
        /\ proc[r].pc = "done"
        /\ proc[r].attribs = proc[w].attribs
        /\ proc[r].attribs # prior

(***************************************************************************)
(* More properties of the methods when calls fail (SpecFault).             *)
(***************************************************************************)
\* C18: a lock file that exists is never removed, moved or changed; one
\* that comes into being is the empty lock file of the object of a mutation
\* called with acquireLock = true; such a mutation, if its os.OpenFile did
\* not fail, leaves the lock file in place, and a mutation without the lock
\* creates none.  So Purge and Rename leave all lock files as they are.
C18_LockFilesStay ==
    [][/\ \A p \in Paths :
             LET l == LockfilePath(p)
             IN  /\ fs[l].exists => fs'[l] = fs[l]
                 /\ (~fs[l].exists /\ fs'[l].exists) =>
                       /\ res'.op \in MutationOps
                       /\ res'.path = p
                       /\ res'.acquireLock
                       /\ fs'[l] = File(<<>>)
       /\ (res'.op \in MutationOps /\ res'.acquireLock /\ res'.err # Panic) =>
             fs'[LockfilePath(res'.path)].exists]_vars

\* Rename has moved a sidecar file whose object has a lock file: the lock
\* file is still at the old path and there is none at the new path.
C18_Witness ==
    /\ res.op = "Rename"
    /\ res.err = Nil
    /\ fs[LockfilePath(res.path)].exists
    /\ ~fs[LockfilePath(res.newPath)].exists
    /\ fs[MetadataPath(res.newPath)].exists

(***************************************************************************)
(* Properties of the path classifier (SpecClassify).                       *)
(***************************************************************************)
\* C19: for every object path p the classifier says yes to the sidecar
\* file MetadataPath(p) and to the lock file LockfilePath(p).
C19_ClassifiesDerivedFiles ==
    (/\ res.op = "IsMetaFile"
     /\ \E p \in ObjectPaths : res.path \in {MetadataPath(p), LockfilePath(p)})
        => res.val

\* C19, the half that holds: sidecar files are recognized.
C19_SidecarRecognized ==
    (/\ res.op = "IsMetaFile"
     /\ \E p \in ObjectPaths : res.path = MetadataPath(p))
        => res.val

\* Every call that was made has returned and no process has crashed.
Quiescent == crashed = {} /\ \A p \in Procs : proc[p].pc \in {"idle", "done"}

\* C20: once every read and every locked mutation on the object has
\* returned, the cache entry of the object is absent or equal to the map in
\* the sidecar file.
C20_QuiescentCoherence ==
    Quiescent => ~StaleEntry(fs, cache, Obj)

(***************************************************************************)
(* Properties of listExistingShares (SpecShares).                          *)
(***************************************************************************)
\* The shares whose Stat returned no error and the status CODE_OK.
GoodShares == {i \in 1..Len(rshares) : rshares[i] = "ok"}

\* No goroutine is left: the collecting goroutine and every worker that was
\* started have exited, and nothing waits in the queue or on a channel.
NoneBlocked ==
    /\ pc.collector = "exited"
    /\ \A w \in Workers : workers[w].state \in {"none", "stopped"}
    /\ tasks = <<>>
    /\ sharesCh.buf = <<>>
    /\ sharesCh.closed /\ doneCh.closed

\* One pair for each good share and no other pair, in any order.
ExactlyTheGoodShares ==
    /\ {sris[k] : k \in 1..Len(sris)} = GoodShares
    /\ Len(sris) = Cardinality(GoodShares)

\* C21: every call of listExistingShares ends, whatever the number of
\* shares (none, or more than the pool has workers); when it returns the
\* list, no goroutine is left blocked on the result channel or on the done
\* channel, and the list holds exactly one pair for each listed share whose
\* Stat returned no error and the status CODE_OK, in any order, the other
\* shares being left out.
C21_ListExistingShares ==
    /\ <>(pc.main \in {"returned", "failed"})
    /\ [](pc.main = "returned" => NoneBlocked /\ ExactlyTheGoodShares)

\* A call that returned with more shares than workers, of which one was
\* left out and two were returned in the other order than listed.
C21_Witness ==
    /\ pc.main = "returned"
    /\ Len(rshares) > MaxWorkers
    /\ \E i \in 1..Len(rshares) : rshares[i] # "ok"
    /\ Len(sris) = 2 /\ sris[1] > sris[2]

====
